---- MODULE Spec2Model ----
(***************************************************************************)
(* HVMX core: tagged 32-bit ports, 60-bit numerals, the rule classifier    *)
(* and the per-redex entry point `interact` over a GNet; the definition    *)
(* Book; a driver that pops pending redexes and has them rewritten; and    *)
(* the bump allocator UnifiedAllocator and the tiling functions of         *)
(* hvmx-memory; and partition_tasks of hvmx-scheduler.                     *)
(*                                                                         *)
(* Machine integers (u32, u64) are wider than the integers the model       *)
(* checker computes with, so a machine word is a sequence of bytes, least  *)
(* significant byte first: a u32 is 4 bytes, a u64 is 8 bytes.  The        *)
(* operators below give Rust's operators on such words.                    *)
(***************************************************************************)
EXTENDS Integers, Sequences, FiniteSets, TLC

VARIABLES
    pc,        \* position of the caller of the engine: idle, ports, classified, interacted
    in_a,      \* the (tag, val) arguments given to Port::new for operand a
    in_b,      \* the (tag, val) arguments given to Port::new for operand b
    a,         \* operand port a (a u32 word)
    b,         \* operand port b (a u32 word)
    rule,      \* the value get_rule(a, b) returned
    nodes,     \* GNet.nodes : Vec<u64>
    redexes,   \* GNet.redexes : Vec<(Port, Port)>
    ret,       \* what interact returned
    oper_res,  \* the local `_result` of interact_oper (dropped by the code)
    npc,       \* position of the caller of Numb: idle, made, done
    raw_x,     \* the u64 given to Numb::new for x
    raw_y,     \* the u64 given to Numb::new for y
    x,         \* Numb operand (its field .0, a u64 word)
    y,         \* Numb operand (its field .0, a u64 word)
    nop,       \* the operation applied last: add, sub, mul, div
    nres,      \* its result (field .0 of the Numb returned)
    nops,      \* how many results were fed back as operands
    prev_x,    \* the operand x that produced the result now held in x
    prev_op,   \* the operation that produced the result now held in x
    defs,      \* Book.defs : HashMap<String, Def>
    ins_log,   \* the (name, def) pairs given to Book::insert so far, oldest first
    bpc,       \* position of the caller of Book: loading, queried
    got_name,  \* the name last looked up
    got,       \* what Book::get returned for it
    got_len,   \* what Book::len returned at that moment
    phase,     \* the reduction of a net: loading, running, quiescent, aborted
    net0,      \* the net as it was handed to the driver
    rewrites,  \* rewrites the driver has performed
    regions,   \* UnifiedAllocator.regions : HashMap<usize, Region>
    stats,     \* UnifiedAllocator.stats : MemStats
    is_unified, \* UnifiedAllocator.is_unified
    next_ptr,  \* UnifiedAllocator.next_ptr
    overflow_checks, \* the build: arithmetic overflow panics (debug) or wraps (release)
    apc,       \* position of the caller of the allocator: start, ready, panicked
    a_op,      \* the last call made: alloc, free
    a_args,    \* its arguments
    a_ret,     \* what it returned
    a_calls,   \* calls of alloc made so far
    a_ptrs,    \* the ptr of every region alloc returned, oldest first
    a_high,    \* the largest total_allocated() the caller has seen
    ppc,       \* position of the caller of partition_tasks: building, done
    p_tasks,   \* the task list it builds
    p_strategy, \* the PartitionStrategy it last passed
    p_out,     \* the Partition it got back
    tpc,       \* position of the caller of the tiling functions
    tile_checks, \* the build: arithmetic overflow panics (debug) or wraps (release)
    t_tile,    \* the TileConfig
    t_width,   \* total_width
    t_index,   \* the linear index
    t_xy,      \* what linear_to_tiled returned
    t_back     \* what tiled_to_linear returned for it

engineVars == <<pc, in_a, in_b, a, b, rule, nodes, redexes, ret, oper_res>>
numbVars == <<npc, raw_x, raw_y, x, y, nop, nres, nops, prev_x, prev_op>>
bookVars == <<defs, ins_log, bpc, got_name, got, got_len>>
runVars == <<phase, net0, rewrites>>
allocVars ==
    <<regions, stats, is_unified, next_ptr, overflow_checks, apc, a_op, a_args, a_ret, a_calls,
      a_ptrs, a_high>>
partVars == <<ppc, p_tasks, p_strategy, p_out>>
tileVars == <<tpc, tile_checks, t_tile, t_width, t_index, t_xy, t_back>>
vars == <<engineVars, numbVars, bookVars, runVars, allocVars, partVars, tileVars>>

----------------------------------------------------------------------------
(* Words *)

\* byte i of word w, 0 beyond its width
ByteAt(w, i) == IF i \in 1..Len(w) THEN w[i] ELSE 0

\* `n as u32` / `n as u64` for a small literal n: the word of `width` bytes
ToWord(n, width) ==
    [i \in 1..width |-> IF i <= 4 THEN (n \div (256 ^ (i - 1))) % 256 ELSE 0]

\* w widened (zero-extended) or cut to `width` bytes
Resize(w, width) == [i \in 1..width |-> ByteAt(w, i)]

RECURSIVE BitAnd(_, _)
\* Rust's `&` on one byte
BitAnd(p, q) ==
    IF p = 0 \/ q = 0 THEN 0
    ELSE (p % 2) * (q % 2) + 2 * BitAnd(p \div 2, q \div 2)

RECURSIVE BitOr(_, _)
\* Rust's `|` on one byte
BitOr(p, q) ==
    IF p = 0 THEN q
    ELSE IF q = 0 THEN p
    ELSE ((p % 2) + (q % 2) - (p % 2) * (q % 2)) + 2 * BitOr(p \div 2, q \div 2)

\* Rust's `&` on two words of one width
WordAnd(v, w) == [i \in 1..Len(v) |-> BitAnd(v[i], w[i])]

\* Rust's `|` on two words of one width
WordOr(v, w) == [i \in 1..Len(v) |-> BitOr(v[i], w[i])]

\* Rust's `<<` by n bits (n below the width): bits shifted out are lost
WordShl(w, n) ==
    LET q == n \div 8
        r == n % 8
    IN  [i \in 1..Len(w) |->
            ((ByteAt(w, i - q) * (2 ^ r)) % 256)
            + (ByteAt(w, i - q - 1) \div (2 ^ (8 - r)))]

\* Rust's `>>` by n bits (n below the width) on an unsigned word
WordShr(w, n) ==
    LET q == n \div 8
        r == n % 8
    IN  [i \in 1..Len(w) |->
            (ByteAt(w, i + q) \div (2 ^ r))
            + ((ByteAt(w, i + q + 1) * (2 ^ (8 - r))) % 256)]

RECURSIVE AddFrom(_, _, _, _, _)
\* bytes i..width of v + w + carry
AddFrom(v, w, i, width, carry) ==
    IF i > width THEN <<>>
    ELSE LET s == ByteAt(v, i) + ByteAt(w, i) + carry
         IN  <<s % 256>> \o AddFrom(v, w, i + 1, width, s \div 256)

RECURSIVE SubFrom(_, _, _, _, _)
\* bytes i..width of v - w - borrow, modulo 256^width
SubFrom(v, w, i, width, borrow) ==
    IF i > width THEN <<>>
    ELSE LET d == ByteAt(v, i) - ByteAt(w, i) - borrow
         IN  <<IF d < 0 THEN d + 256 ELSE d>>
             \o SubFrom(v, w, i + 1, width, IF d < 0 THEN 1 ELSE 0)

RECURSIVE ColumnSum(_, _, _, _)
\* sum of v[i] * w[k + 1 - i] for i in 1..j: column k of the schoolbook product
ColumnSum(v, w, k, j) ==
    IF j = 0 THEN 0
    ELSE ByteAt(v, j) * ByteAt(w, k + 1 - j) + ColumnSum(v, w, k, j - 1)

RECURSIVE MulFrom(_, _, _, _, _)
\* bytes k..width of v * w, given the carry into column k
MulFrom(v, w, k, width, carry) ==
    IF k > width THEN <<>>
    ELSE LET s == ColumnSum(v, w, k, k) + carry
         IN  <<s % 256>> \o MulFrom(v, w, k + 1, width, s \div 256)

RECURSIVE LessFrom(_, _, _)
\* v < w as numbers, comparing bytes i, i-1, .., 1
LessFrom(v, w, i) ==
    IF i = 0 THEN FALSE
    ELSE IF ByteAt(v, i) # ByteAt(w, i) THEN ByteAt(v, i) < ByteAt(w, i)
    ELSE LessFrom(v, w, i - 1)

\* v < w as numbers, whatever their widths
WordLess(v, w) == LessFrom(v, w, IF Len(v) > Len(w) THEN Len(v) ELSE Len(w))

\* u64::wrapping_add
wrapping_add(v, w) == AddFrom(v, w, 1, Len(v), 0)

\* u64::wrapping_sub
wrapping_sub(v, w) == SubFrom(v, w, 1, Len(v), 0)

\* u64::wrapping_mul
wrapping_mul(v, w) == MulFrom(v, w, 1, Len(v), 0)

\* bit i (0 = least significant) of word w
BitOf(w, i) == (w[(i \div 8) + 1] \div (2 ^ (i % 8))) % 2

RECURSIVE DivFrom(_, _, _, _, _)
\* binary long division: bits i, i-1, .., 0 of v still to bring down, q the
\* quotient bits found so far, r the running remainder (one byte wider than v)
DivFrom(v, w, i, q, r) ==
    IF i < 0 THEN q
    ELSE LET r2 == AddFrom(r, r, 1, Len(r), BitOf(v, i))
         IN  IF WordLess(r2, w)
             THEN DivFrom(v, w, i - 1, q, r2)
             ELSE DivFrom(v, w, i - 1,
                          [q EXCEPT ![(i \div 8) + 1] = @ + (2 ^ (i % 8))],
                          SubFrom(r2, w, 1, Len(r), 0))

\* what an operation that panicked leaves behind: no word at all
PANIC == <<>>

\* Rust's `/` on two unsigned words: a zero divisor panics
WordDiv(v, w) ==
    IF w = ToWord(0, Len(w)) THEN PANIC
    ELSE DivFrom(v, w, 8 * Len(v) - 1, ToWord(0, Len(v)), ToWord(0, Len(v) + 1))

----------------------------------------------------------------------------
(* numb.rs *)

\* 0x0FFFFFFFFFFFFFFF
MASK60 == <<255, 255, 255, 255, 255, 255, 255, 15>>

\* Numb::new with the mask forgotten
Numb_new_unmasked(val) == val

\* Numb::new
Numb_new(val) == WordAnd(val, MASK60)

\* Add that clamps at the largest numeral instead of wrapping
Numb_add_saturating(self, other) ==
    LET s == AddFrom(self, other, 1, 9, 0)
    IN  IF WordLess(MASK60, s) THEN MASK60 ELSE Resize(s, 8)

\* impl Add for Numb
Numb_add(self, other) == Numb_new(wrapping_add(self, other))

\* impl Sub for Numb
Numb_sub(self, other) == Numb_new(wrapping_sub(self, other))

\* Mul that returns the wrapped u64 product without Numb::new
Numb_mul_unmasked(self, other) == wrapping_mul(self, other)

\* impl Mul for Numb
Numb_mul(self, other) == Numb_new(wrapping_mul(self, other))

\* Div without the test for a zero divisor
Numb_div_unchecked(self, other) ==
    LET q == WordDiv(self, other)
    IN  IF q = PANIC THEN PANIC ELSE Numb_new(q)

\* impl Div for Numb
Numb_div(self, other) ==
    IF other = ToWord(0, 8) THEN ToWord(0, 8)
    ELSE LET q == WordDiv(self, other)
         IN  IF q = PANIC THEN PANIC ELSE Numb_new(q)

----------------------------------------------------------------------------
(* port.rs *)

\* enum Tag { Var = 0, Ref = 1, Num = 2 }
Tag == {"Var", "Ref", "Num"}

\* `tag as u32`: the discriminant of a Tag
TagCode(tag) ==
    CASE tag = "Var" -> ToWord(0, 4)
      [] tag = "Ref" -> ToWord(1, 4)
      [] tag = "Num" -> ToWord(2, 4)

\* 0x1FFFFFFF
MASK29 == <<255, 255, 255, 31>>

\* Port::new with the payload mask forgotten
Port_new_unmasked(tag, val) == WordOr(WordShl(TagCode(tag), 29), val)

\* Port::new
Port_new(tag, val) == WordOr(WordShl(TagCode(tag), 29), WordAnd(val, MASK29))

\* Port::tag shifting by one bit too few
Port_tag_shift28(self) ==
    LET t == WordShr(self, 28)
    IN  IF t = ToWord(0, 4) THEN "Var"
        ELSE IF t = ToWord(1, 4) THEN "Ref"
        ELSE IF t = ToWord(2, 4) THEN "Num"
        ELSE "unreachable"

\* Port::tag; the arm `_ => unreachable!()` panics
Port_tag(self) ==
    LET t == WordShr(self, 29)
    IN  IF t = ToWord(0, 4) THEN "Var"
        ELSE IF t = ToWord(1, 4) THEN "Ref"
        ELSE IF t = ToWord(2, 4) THEN "Num"
        ELSE "unreachable"

\* Port::val
Port_val(self) == WordAnd(self, MASK29)

----------------------------------------------------------------------------
(* interact.rs *)

\* enum Rule
Rule == {"Link", "Anni", "Comm", "Eras", "Deref", "Call", "Copy", "Oper"}

\* get_rule with the alternative `(_, Ref)` missing from the Deref arm
get_rule_left_ref_only(pa, pb) ==
    LET ta == Port_tag(pa)
        tb == Port_tag(pb)
    IN  IF ta = "unreachable" \/ tb = "unreachable" THEN "panic"
        ELSE IF ta = "Var" /\ tb = "Var" THEN "Link"
        ELSE IF ta = "Var" \/ tb = "Var" THEN "Link"
        ELSE IF ta = "Ref" THEN "Deref"
        ELSE IF ta = "Num" /\ tb = "Num" THEN "Oper"
        ELSE "Link"

\* get_rule with the Deref arm moved above the `(Var, _) | (_, Var)` arm
get_rule_ref_first(pa, pb) ==
    LET ta == Port_tag(pa)
        tb == Port_tag(pb)
    IN  IF ta = "unreachable" \/ tb = "unreachable" THEN "panic"
        ELSE IF ta = "Var" /\ tb = "Var" THEN "Link"
        ELSE IF ta = "Ref" \/ tb = "Ref" THEN "Deref"
        ELSE IF ta = "Var" \/ tb = "Var" THEN "Link"
        ELSE IF ta = "Num" /\ tb = "Num" THEN "Oper"
        ELSE "Link"

\* a classifier with an arm of its own for two references
get_rule_ref_pair_comm(pa, pb) ==
    LET ta == Port_tag(pa)
        tb == Port_tag(pb)
    IN  IF ta = "unreachable" \/ tb = "unreachable" THEN "panic"
        ELSE IF ta = "Var" /\ tb = "Var" THEN "Link"
        ELSE IF ta = "Var" \/ tb = "Var" THEN "Link"
        ELSE IF ta = "Ref" /\ tb = "Ref" THEN "Comm"
        ELSE IF ta = "Ref" \/ tb = "Ref" THEN "Deref"
        ELSE IF ta = "Num" /\ tb = "Num" THEN "Oper"
        ELSE "Link"

\* get_rule: the arms of the match in their order; a panic of Port::tag
\* unwinds through it
get_rule(pa, pb) ==
    LET ta == Port_tag(pa)
        tb == Port_tag(pb)
    IN  IF ta = "unreachable" \/ tb = "unreachable" THEN "panic"
        ELSE IF ta = "Var" /\ tb = "Var" THEN "Link"
        ELSE IF ta = "Var" \/ tb = "Var" THEN "Link"
        ELSE IF ta = "Ref" \/ tb = "Ref" THEN "Deref"
        ELSE IF ta = "Num" /\ tb = "Num" THEN "Oper"
        ELSE "Link"

\* what interact and the interact_* bodies hand back: the net as they leave
\* it, the Result, and the value of the local `_result` (interact_oper only)
Outcome(net, result, local) == [net |-> net, ret |-> result, local |-> local]

\* no local `_result`
NoLocal == <<>>

\* a node word holding two ports, the first in its low half
MakeNode(p1, p2) == p1 \o p2

\* the two ports a node word holds
NodePorts(w) == {SubSeq(w, 1, 4), SubSeq(w, 5, 8)}

\* an interact_link that records its pair in slot 0 unless a slot exists
interact_link_first_wins(net, pa, pb) ==
    IF net.nodes = <<>>
    THEN Outcome([net EXCEPT !.nodes = <<MakeNode(pa, pb)>>], "Ok", NoLocal)
    ELSE Outcome(net, "Ok", NoLocal)

\* an interact_deref that writes a reference to the next definition into
\* a new node, whether or not the Book holds it
interact_deref_dangling(net, pa, pb) ==
    Outcome([net EXCEPT !.nodes = Append(@, MakeNode(Port_new("Ref", ToWord(1, 4)), pb))],
            "Ok", NoLocal)

\* an interact_oper that puts its own pair back on the pending list
interact_oper_requeue(net, pa, pb) ==
    Outcome([net EXCEPT !.redexes = Append(@, <<pa, pb>>)], "Ok",
            wrapping_add(Port_val(pa), Port_val(pb)))

\* interact_link: Ok(()), the net untouched
interact_link(net, pa, pb) == Outcome(net, "Ok", NoLocal)

\* interact_anni: Ok(()), the net untouched
interact_anni(net, pa, pb) == Outcome(net, "Ok", NoLocal)

\* interact_comm: Ok(()), the net untouched
interact_comm(net, pa, pb) == Outcome(net, "Ok", NoLocal)

\* interact_eras: Ok(()), the net untouched
interact_eras(net, pa, pb) == Outcome(net, "Ok", NoLocal)

\* interact_deref: Ok(()), the net untouched
interact_deref(net, pa, pb) == Outcome(net, "Ok", NoLocal)

\* interact_call: Ok(()), the net untouched
interact_call(net, pa, pb) == Outcome(net, "Ok", NoLocal)

\* interact_copy: Ok(()), the net untouched
interact_copy(net, pa, pb) == Outcome(net, "Ok", NoLocal)

\* interact_oper: adds the two payloads into `_result`, which is dropped; the
\* sum of two 29-bit payloads is below 2^30, so the u32 `+` cannot overflow
interact_oper(net, pa, pb) ==
    LET val_a == Port_val(pa)
        val_b == Port_val(pb)
        result == wrapping_add(val_a, val_b)
    IN  Outcome(net, "Ok", result)

\* interact: classify, then dispatch on the rule
interact(net, pa, pb) ==
    LET r == get_rule(pa, pb)
    IN  CASE r = "Link" -> interact_link(net, pa, pb)
          [] r = "Anni" -> interact_anni(net, pa, pb)
          [] r = "Comm" -> interact_comm(net, pa, pb)
          [] r = "Eras" -> interact_eras(net, pa, pb)
          [] r = "Deref" -> interact_deref(net, pa, pb)
          [] r = "Call" -> interact_call(net, pa, pb)
          [] r = "Copy" -> interact_copy(net, pa, pb)
          [] r = "Oper" -> interact_oper(net, pa, pb)
          [] OTHER -> Outcome(net, "panic", NoLocal)

----------------------------------------------------------------------------
(* net.rs *)

\* GNet::new
GNet_new == [nodes |-> <<>>, redexes |-> <<>>]

----------------------------------------------------------------------------
(* book.rs *)

\* Option<&Def>
None == [some |-> FALSE]
Some(v) == [some |-> TRUE, val |-> v]

\* Book::new: an empty HashMap
Book_new == [n \in {} |-> n]

\* Book::insert that leaves an existing entry alone
Book_insert_keep_first(book, name, def) ==
    [n \in (DOMAIN book) \cup {name} |-> IF n \in DOMAIN book THEN book[n] ELSE def]

\* Book::insert: HashMap::insert replaces the value under an existing key
Book_insert(book, name, def) ==
    [n \in (DOMAIN book) \cup {name} |-> IF n = name THEN def ELSE book[n]]

\* Book::get
Book_get(book, name) == IF name \in DOMAIN book THEN Some(book[name]) ELSE None

\* Book::len
Book_len(book) == Cardinality(DOMAIN book)

\* Book::is_empty
Book_is_empty(book) == DOMAIN book = {}

\* the definition name a Ref port stands for: its payload indexes the names
\* of the program, "id" first
RefName(port) ==
    LET v == Port_val(port)
    IN  IF v = ToWord(0, 4) THEN "id"
        ELSE IF v = ToWord(1, 4) THEN "f"
        ELSE "undefined"

----------------------------------------------------------------------------
(* The driver: pops one pending redex and has the engine rewrite it *)

\* Vec::remove(i)
RemoveAt(s, i) == SubSeq(s, 1, i - 1) \o SubSeq(s, i + 1, Len(s))

\* what one invocation of the driver did
Ran(net, result, local, given, rewrote) ==
    [net |-> net, ret |-> result, local |-> local, given |-> given, rewrote |-> rewrote]

\* a driver that rewrites without looking whether a redex is pending
driver_run_unguarded(net, i) ==
    LET given == IF net.redexes = <<>>
                 THEN <<Port_new("Var", ToWord(0, 4)), Port_new("Var", ToWord(0, 4))>>
                 ELSE net.redexes[i]
        rest == [net EXCEPT !.redexes = RemoveAt(@, i)]
        out == interact(rest, given[1], given[2])
    IN  Ran(out.net, out.ret, out.local, given, TRUE)

\* one invocation of the driver: with nothing pending it does nothing;
\* otherwise it takes pending redex i off the list (a stack pops the last,
\* a stealing worker any other) and calls interact on it
driver_run(net, i) ==
    IF net.redexes = <<>>
    THEN Ran(net, "Ok", NoLocal, <<>>, FALSE)
    ELSE LET given == net.redexes[i]
             rest == [net EXCEPT !.redexes = RemoveAt(@, i)]
             out == interact(rest, given[1], given[2])
         IN  Ran(out.net, out.ret, out.local, given, TRUE)

----------------------------------------------------------------------------
(* hvmx-memory: lib.rs and unified.rs; usize is 64 bits *)

\* a usize
Usize(n) == ToWord(n, 8)

\* v + w does not fit in a usize
AddOverflows(v, w) == AddFrom(v, w, 1, 9, 0)[9] # 0

\* !w
WordNot(w) == [i \in 1..Len(w) |-> 255 - w[i]]

\* usize::saturating_sub
saturating_sub(v, w) == IF WordLess(v, w) THEN Usize(0) ELSE wrapping_sub(v, w)

\* a power-of-two test that lets 0 through: x & (x - 1) == 0
is_power_of_two_or_zero(w) == WordAnd(w, wrapping_sub(w, Usize(1))) = Usize(0)

\* usize::is_power_of_two: exactly one bit set, so false for 0
is_power_of_two(w) == w # Usize(0) /\ WordAnd(w, wrapping_sub(w, Usize(1))) = Usize(0)

\* MemStats::new
MemStats_new == [allocated |-> Usize(0), peak |-> Usize(0), allocations |-> 0, deallocations |-> 0]

\* a record_alloc that takes the new total as the peak
record_alloc_peak_last(st, size) ==
    LET now == wrapping_add(st.allocated, size)
    IN  [st EXCEPT !.allocated = now, !.allocations = @ + 1, !.peak = now]

\* MemStats::record_alloc, `+=` wrapping
record_alloc(st, size) ==
    LET now == wrapping_add(st.allocated, size)
    IN  [st EXCEPT !.allocated = now,
                   !.allocations = @ + 1,
                   !.peak = IF WordLess(@, now) THEN now ELSE @]

\* MemStats::record_dealloc
record_dealloc(st, size) ==
    [st EXCEPT !.allocated = saturating_sub(@, size), !.deallocations = @ + 1]

\* Result values of alloc and free; a panic is neither
Ok(v) == [kind |-> "Ok", val |-> v]
Err(err) == [kind |-> "Err", err |-> err]
Panicked == [kind |-> "panic"]

\* the allocator after a call, and what the call returned
After(al, result) == [al |-> al, ret |-> result]

\* UnifiedAllocator::new
UnifiedAllocator_new(unified) ==
    [regions |-> [p \in {} |-> p], stats |-> MemStats_new,
     is_unified |-> unified, next_ptr |-> Usize(65536)]

\* a bump pointer that is not rounded up
align_up_none(ptr, alignment) == [val |-> ptr, over |-> FALSE]

\* (next_ptr + alignment - 1) & !(alignment - 1), and whether one of its
\* additions or subtractions left the range of usize
align_up(ptr, alignment) ==
    LET sum == wrapping_add(ptr, alignment)
        top == wrapping_sub(sum, Usize(1))
        low == wrapping_sub(alignment, Usize(1))
    IN  [val |-> WordAnd(top, WordNot(low)),
         over |-> AddOverflows(ptr, alignment) \/ sum = Usize(0) \/ alignment = Usize(0)]

\* UnifiedAllocator::alloc; with overflow checks the first overflowing
\* operation panics, leaving what was written before it
UnifiedAllocator_alloc(al, size, alignment, checks) ==
    IF ~al.is_unified THEN After(al, Err("NotUnified"))
    ELSE IF ~is_power_of_two(alignment) THEN After(al, Err("InvalidAlignment"))
    ELSE LET up == align_up(al.next_ptr, alignment)
             aligned_ptr == up.val
             region == [ptr |-> aligned_ptr, size |-> size,
                        device_accessible |-> TRUE, host_accessible |-> TRUE]
             al1 == [al EXCEPT !.regions =
                        [p \in (DOMAIN @) \cup {aligned_ptr} |->
                            IF p = aligned_ptr THEN region ELSE @[p]]]
             al2 == [al1 EXCEPT !.stats = record_alloc(@, size)]
             al3 == [al2 EXCEPT !.next_ptr = wrapping_add(aligned_ptr, size)]
         IN  IF checks /\ up.over THEN After(al, Panicked)
             ELSE IF checks /\ AddOverflows(al.stats.allocated, size) THEN After(al1, Panicked)
             ELSE IF checks /\ AddOverflows(aligned_ptr, size) THEN After(al2, Panicked)
             ELSE After(al3, Ok(region))

\* a free that counts a deallocation before it looks the pointer up
UnifiedAllocator_free_counts_first(al, ptr) ==
    IF ptr \in DOMAIN al.regions
    THEN After([al EXCEPT !.regions = [p \in (DOMAIN @) \ {ptr} |-> @[p]],
                          !.stats = record_dealloc(@, al.regions[ptr].size)],
               Ok(<<>>))
    ELSE After([al EXCEPT !.stats = record_dealloc(@, Usize(0))], Err("NullPointer"))

\* UnifiedAllocator::free
UnifiedAllocator_free(al, ptr) ==
    IF ptr \in DOMAIN al.regions
    THEN After([al EXCEPT !.regions = [p \in (DOMAIN @) \ {ptr} |-> @[p]],
                          !.stats = record_dealloc(@, al.regions[ptr].size)],
               Ok(<<>>))
    ELSE After(al, Err("NullPointer"))

\* UnifiedAllocator::is_valid
UnifiedAllocator_is_valid(al, ptr) == ptr \in DOMAIN al.regions

\* UnifiedAllocator::get_region
UnifiedAllocator_get_region(al, ptr) ==
    IF ptr \in DOMAIN al.regions THEN Some(al.regions[ptr]) ELSE None

\* UnifiedAllocator::total_allocated
UnifiedAllocator_total_allocated(al) == al.stats.allocated

\* UnifiedAllocator::peak_usage
UnifiedAllocator_peak_usage(al) == al.stats.peak

----------------------------------------------------------------------------
(* hvmx-scheduler: lib.rs and partition.rs *)

\* Task::new
Task_new(id, size, backend) == [id |-> id, size |-> size, backend |-> backend]

\* Partition::new
Partition_new == [cpu_tasks |-> <<>>, gpu_tasks |-> <<>>]

\* Partition::total_tasks
Partition_total_tasks(partition) == Len(partition.cpu_tasks) + Len(partition.gpu_tasks)

RECURSIVE size_threshold_drops_equal(_, _, _, _)
\* a threshold loop that pushes only tasks above or below the threshold
size_threshold_drops_equal(tasks, threshold, k, partition) ==
    IF k > Len(tasks) THEN partition
    ELSE size_threshold_drops_equal(tasks, threshold, k + 1,
             IF tasks[k].size > threshold
             THEN [partition EXCEPT !.gpu_tasks = Append(@, tasks[k])]
             ELSE IF tasks[k].size < threshold
             THEN [partition EXCEPT !.cpu_tasks = Append(@, tasks[k])]
             ELSE partition)

RECURSIVE size_threshold_strict(_, _, _, _)
\* a threshold loop that tests `task.size > threshold`
size_threshold_strict(tasks, threshold, k, partition) ==
    IF k > Len(tasks) THEN partition
    ELSE size_threshold_strict(tasks, threshold, k + 1,
             IF tasks[k].size > threshold
             THEN [partition EXCEPT !.gpu_tasks = Append(@, tasks[k])]
             ELSE [partition EXCEPT !.cpu_tasks = Append(@, tasks[k])])

RECURSIVE size_threshold(_, _, _, _)
\* the SizeThreshold arm: `for task in tasks`, from task k on
size_threshold(tasks, threshold, k, partition) ==
    IF k > Len(tasks) THEN partition
    ELSE size_threshold(tasks, threshold, k + 1,
             IF tasks[k].size >= threshold
             THEN [partition EXCEPT !.gpu_tasks = Append(@, tasks[k])]
             ELSE [partition EXCEPT !.cpu_tasks = Append(@, tasks[k])])

RECURSIVE round_robin(_, _, _)
\* the RoundRobin arm: `for (i, task) in tasks.iter().enumerate()`, from
\* task k on; i counts from 0
round_robin(tasks, k, partition) ==
    IF k > Len(tasks) THEN partition
    ELSE LET i == k - 1
         IN  round_robin(tasks, k + 1,
                 IF i % 2 = 0
                 THEN [partition EXCEPT !.cpu_tasks = Append(@, tasks[k])]
                 ELSE [partition EXCEPT !.gpu_tasks = Append(@, tasks[k])])

\* partition_tasks
partition_tasks(tasks, strategy) ==
    CASE strategy.kind = "AllCPU" -> [Partition_new EXCEPT !.cpu_tasks = tasks]
      [] strategy.kind = "AllGPU" -> [Partition_new EXCEPT !.gpu_tasks = tasks]
      [] strategy.kind = "SizeThreshold" ->
             size_threshold(tasks, strategy.threshold, 1, Partition_new)
      [] strategy.kind = "RoundRobin" -> round_robin(tasks, 1, Partition_new)

----------------------------------------------------------------------------
(* hvmx-memory: tile.rs; usize is 64 bits *)

\* v * w does not fit in a usize
MulOverflows(v, w) ==
    SubSeq(wrapping_mul(Resize(v, 16), Resize(w, 16)), 9, 16) # Usize(0)

\* v - q * w: the remainder of v by w, given the quotient q
RemGiven(v, w, q) == wrapping_sub(v, wrapping_mul(q, w))

\* TileConfig::new
TileConfig_new(width, height) == [width |-> width, height |-> height]

\* an area that multiplies the width by itself
TileConfig_area_width_squared(tile) == wrapping_mul(tile.width, tile.width)

\* TileConfig::area, `*` wrapping
TileConfig_area(tile) == wrapping_mul(tile.width, tile.height)

\* linear_to_tiled; a zero divisor panics, and with overflow checks so does
\* an overflowing `*` or `+`
linear_to_tiled(index, tile, total_width, checks) ==
    IF tile.width = Usize(0) THEN PANIC
    ELSE IF checks /\ MulOverflows(tile.width, tile.height) THEN PANIC
    ELSE IF TileConfig_area(tile) = Usize(0) THEN PANIC
    ELSE LET tiles_per_row == WordDiv(total_width, tile.width)
             tile_index == WordDiv(index, TileConfig_area(tile))
             within_tile == RemGiven(index, TileConfig_area(tile), tile_index)
         IN  IF tiles_per_row = Usize(0) THEN PANIC
             ELSE LET tile_row == WordDiv(tile_index, tiles_per_row)
                      tile_col == RemGiven(tile_index, tiles_per_row, tile_row)
                      local_row == WordDiv(within_tile, tile.width)
                      local_col == RemGiven(within_tile, tile.width, local_row)
                      x0 == wrapping_mul(tile_col, tile.width)
                      y0 == wrapping_mul(tile_row, tile.height)
                      over == \/ MulOverflows(tile_col, tile.width)
                              \/ AddOverflows(x0, local_col)
                              \/ MulOverflows(tile_row, tile.height)
                              \/ AddOverflows(y0, local_row)
                  IN  IF checks /\ over THEN PANIC
                      ELSE <<wrapping_add(x0, local_col), wrapping_add(y0, local_row)>>

\* tiled_to_linear of the coordinates (tx, ty); panics as linear_to_tiled does
tiled_to_linear(tx, ty, tile, total_width, checks) ==
    IF tile.width = Usize(0) \/ tile.height = Usize(0) THEN PANIC
    ELSE LET tiles_per_row == WordDiv(total_width, tile.width)
             tile_col == WordDiv(tx, tile.width)
             tile_row == WordDiv(ty, tile.height)
             local_col == RemGiven(tx, tile.width, tile_col)
             local_row == RemGiven(ty, tile.height, tile_row)
             t0 == wrapping_mul(tile_row, tiles_per_row)
             tile_index == wrapping_add(t0, tile_col)
             w0 == wrapping_mul(local_row, tile.width)
             within_tile == wrapping_add(w0, local_col)
             r0 == wrapping_mul(tile_index, TileConfig_area(tile))
             over == \/ MulOverflows(tile_row, tiles_per_row)
                     \/ AddOverflows(t0, tile_col)
                     \/ MulOverflows(local_row, tile.width)
                     \/ AddOverflows(w0, local_col)
                     \/ MulOverflows(tile.width, tile.height)
                     \/ MulOverflows(tile_index, TileConfig_area(tile))
                     \/ AddOverflows(r0, within_tile)
         IN  IF checks /\ over THEN PANIC
             ELSE wrapping_add(r0, within_tile)

----------------------------------------------------------------------------
(* Bounds and inputs *)

\* tile configurations with positive width and height: TILE_16X16, 16 x 8,
\* 3 x 5, 2^32 x 2^32 (area 2^64) and 3 x 0xAAAAAAAAAAAAAAAB (area 2^65 + 1)
TileSamples ==
    { TileConfig_new(Usize(16), Usize(16)),
      TileConfig_new(Usize(16), Usize(8)),
      TileConfig_new(Usize(3), Usize(5)),
      TileConfig_new(<<0, 0, 0, 0, 1, 0, 0, 0>>, <<0, 0, 0, 0, 1, 0, 0, 0>>),
      TileConfig_new(Usize(3), <<171, 170, 170, 170, 170, 170, 170, 170>>) }

\* total_width as a multiple of the tile width: one tile a row, or eight
TilesPerRowSamples == { Usize(1), Usize(8) }

\* linear indices, up to usize::MAX
IndexSamples ==
    { Usize(0), Usize(17), Usize(255), Usize(300), Usize(2000),
      <<255, 255, 255, 255, 255, 255, 255, 255>> }

\* tasks in the list given to partition_tasks
MaxTasks == 3

\* tasks put on the list; the backend field of a task plays no part
TaskSamples ==
    { Task_new(1, 50, "CPU"), Task_new(2, 100, "GPU"),
      Task_new(3, 150, "CPU"), Task_new(4, 200, "GPU") }

\* strategies passed to partition_tasks
StrategySamples ==
    { [kind |-> "AllCPU"], [kind |-> "AllGPU"], [kind |-> "RoundRobin"],
      [kind |-> "SizeThreshold", threshold |-> 100],
      [kind |-> "SizeThreshold", threshold |-> 0] }

\* calls of UnifiedAllocator::alloc
MaxAllocCalls == 2

\* sizes asked of alloc: none, a few bytes, half the address space, and
\* all of it above the first pointer but eight bytes
SizeSamples ==
    { Usize(0), Usize(24),
      <<0, 0, 0, 0, 0, 0, 0, 128>>,
      <<248, 255, 254, 255, 255, 255, 255, 255>> }

\* alignments asked of alloc
AlignSamples == { Usize(0), Usize(15), Usize(16), Usize(256) }

\* a pointer no alloc returned
StrayPtr == Usize(74565)

\* nodes of a net handed to the driver
MaxNodes == 1

\* the definition `id`: one parameter
IdDef == [name |-> "id", arity |-> 1, net |-> GNet_new]

\* @id, 42, and the other ports of the nets handed to the driver
RefId == Port_new("Ref", ToWord(0, 4))
Num42 == Port_new("Num", ToWord(42, 4))
RunVar1 == Port_new("Var", ToWord(1, 4))
RunVar2 == Port_new("Var", ToWord(2, 4))
RunNum3 == Port_new("Num", ToWord(3, 4))
RunNum10 == Port_new("Num", ToWord(10, 4))

\* pending redexes of the nets handed to the driver
RedexSamples ==
    { <<RefId, Num42>>, <<Num42, RefId>>, <<RunVar1, RunNum3>>,
      <<RunVar1, RunVar2>>, <<RunNum10, RunNum3>> }

\* nodes of the nets handed to the driver
NodeSamples == { MakeNode(Num42, RunVar1), MakeNode(RefId, RunNum3) }

\* calls of Book::insert
MaxInserts == 3

\* names given to Book::insert and Book::get
NameSamples == {"id", "f"}

\* definitions given to Book::insert; the name inside a Def need not be the
\* key it is inserted under
DefSamples ==
    { [name |-> "id", arity |-> 1, net |-> GNet_new],
      [name |-> "id", arity |-> 2, net |-> GNet_new],
      [name |-> "f", arity |-> 2, net |-> GNet_new] }

\* pairs a caller enqueues in GNet.redexes before it calls interact
MaxRedexes == 2

\* results of Numb operations fed back as the left operand
MaxOps == 1

\* u32 payloads given to Port::new: small ones, the largest 29-bit value, and
\* values with bits above bit 28 set
ValSamples ==
    { <<1, 0, 0, 0>>, <<2, 0, 0, 0>>, <<3, 0, 0, 0>>, <<10, 0, 0, 0>>,
      <<255, 255, 255, 31>>, <<3, 0, 0, 32>>, <<255, 255, 255, 255>> }

\* u64 values given to Numb::new: small ones, 2^32, 2^59 + 1, 2^60 - 1,
\* 2^60 + 20 and 2^64 - 1
RawSamples ==
    { <<0, 0, 0, 0, 0, 0, 0, 0>>, <<3, 0, 0, 0, 0, 0, 0, 0>>,
      <<10, 0, 0, 0, 0, 0, 0, 0>>, <<0, 0, 0, 0, 1, 0, 0, 0>>,
      <<1, 0, 0, 0, 0, 0, 0, 8>>, <<255, 255, 255, 255, 255, 255, 255, 15>>,
      <<20, 0, 0, 0, 0, 0, 0, 16>>,
      <<255, 255, 255, 255, 255, 255, 255, 255>> }

----------------------------------------------------------------------------
(* The engine and its caller *)

NoPort == <<>>
NoArgs == [tag |-> "none", val |-> <<>>]

InitEngine ==
    /\ pc = "idle"
    /\ in_a = NoArgs
    /\ in_b = NoArgs
    /\ a = NoPort
    /\ b = NoPort
    /\ rule = "none"
    /\ nodes = GNet_new.nodes
    /\ redexes = GNet_new.redexes
    /\ ret = "none"
    /\ oper_res = NoLocal

\* let a = Port::new(ta, va); let b = Port::new(tb, vb);
MakePorts(ta, va, tb, vb) ==
    /\ pc = "idle"
    /\ in_a' = [tag |-> ta, val |-> va]
    /\ in_b' = [tag |-> tb, val |-> vb]
    /\ a' = Port_new(ta, va)
    /\ b' = Port_new(tb, vb)
    /\ pc' = "ports"
    /\ UNCHANGED <<rule, nodes, redexes, ret, oper_res>>

\* net.redexes.push((a, b)) through the public field
PushRedex ==
    /\ pc = "ports"
    /\ Len(redexes) < MaxRedexes
    /\ redexes' = Append(redexes, <<a, b>>)
    /\ UNCHANGED <<pc, in_a, in_b, a, b, rule, nodes, ret, oper_res>>

\* let r = get_rule(a, b);
Classify ==
    /\ pc = "ports"
    /\ rule' = get_rule(a, b)
    /\ pc' = "classified"
    /\ UNCHANGED <<in_a, in_b, a, b, nodes, redexes, ret, oper_res>>

\* let result = interact(&mut net, a, b);
Interact ==
    /\ pc \in {"ports", "classified"}
    /\ LET out == interact([nodes |-> nodes, redexes |-> redexes], a, b)
       IN  /\ nodes' = out.net.nodes
           /\ redexes' = out.net.redexes
           /\ ret' = out.ret
           /\ oper_res' = out.local
    /\ rule' = get_rule(a, b)
    /\ pc' = "interacted"
    /\ UNCHANGED <<in_a, in_b, a, b>>

----------------------------------------------------------------------------
(* Numb and its caller *)

InitNumb ==
    /\ npc = "idle"
    /\ raw_x = <<>>
    /\ raw_y = <<>>
    /\ x = <<>>
    /\ y = <<>>
    /\ nop = "none"
    /\ nres = <<>>
    /\ nops = 0
    /\ prev_x = <<>>
    /\ prev_op = "none"

\* let x = Numb::new(rx); let y = Numb::new(ry);
NumbMake(rx, ry) ==
    /\ npc = "idle"
    /\ raw_x' = rx
    /\ raw_y' = ry
    /\ x' = Numb_new(rx)
    /\ y' = Numb_new(ry)
    /\ npc' = "made"
    /\ UNCHANGED <<nop, nres, nops, prev_x, prev_op>>

\* the frame of one operation on x and y
Applied(op, value) ==
    /\ npc = "made"
    /\ nop' = op
    /\ nres' = value
    /\ npc' = "done"
    /\ UNCHANGED <<raw_x, raw_y, x, y, nops, prev_x, prev_op>>

\* x + y
NumbAdd == Applied("add", Numb_add(x, y))

\* x - y
NumbSub == Applied("sub", Numb_sub(x, y))

\* x * y
NumbMul == Applied("mul", Numb_mul(x, y))

\* x / y
NumbDiv == Applied("div", Numb_div(x, y))

\* let x = <the result>; the next operation takes it as its left operand
NumbFeed ==
    /\ npc = "done"
    /\ nres # PANIC
    /\ nops < MaxOps
    /\ prev_x' = x
    /\ prev_op' = nop
    /\ x' = nres
    /\ nops' = nops + 1
    /\ nop' = "none"
    /\ nres' = <<>>
    /\ npc' = "made"
    /\ UNCHANGED <<raw_x, raw_y, y>>

----------------------------------------------------------------------------
(* Book and its caller *)

InitBook ==
    /\ defs = Book_new
    /\ ins_log = <<>>
    /\ bpc = "loading"
    /\ got_name = "none"
    /\ got = None
    /\ got_len = 0

\* book.insert(name, def);
BookInsert(name, def) ==
    /\ Len(ins_log) < MaxInserts
    /\ defs' = Book_insert(defs, name, def)
    /\ ins_log' = Append(ins_log, <<name, def>>)
    /\ bpc' = "loading"
    /\ UNCHANGED <<got_name, got, got_len>>

\* let d = book.get(name); let n = book.len();
BookQuery(name) ==
    /\ got_name' = name
    /\ got' = Book_get(defs, name)
    /\ got_len' = Book_len(defs)
    /\ bpc' = "queried"
    /\ UNCHANGED <<defs, ins_log>>

----------------------------------------------------------------------------
(* Reduction of a net *)

InitRun ==
    /\ phase = "loading"
    /\ net0 = GNet_new
    /\ rewrites = 0

\* the Book of the program: book.insert("id", id) before execution starts
InitBookLoaded ==
    /\ defs = Book_insert(Book_new, "id", IdDef)
    /\ ins_log = << <<"id", IdDef>> >>
    /\ bpc = "loading"
    /\ got_name = "none"
    /\ got = None
    /\ got_len = 0

\* net.redexes.push(pair) through the public field
RunLoadRedex(pair) ==
    /\ phase = "loading"
    /\ Len(redexes) < MaxRedexes
    /\ redexes' = Append(redexes, pair)
    /\ UNCHANGED <<pc, in_a, in_b, a, b, rule, nodes, ret, oper_res>>
    /\ UNCHANGED runVars

\* net.nodes.push(word) through the public field
RunLoadNode(word) ==
    /\ phase = "loading"
    /\ Len(nodes) < MaxNodes
    /\ nodes' = Append(nodes, word)
    /\ UNCHANGED <<pc, in_a, in_b, a, b, rule, redexes, ret, oper_res>>
    /\ UNCHANGED runVars

\* the net is handed to the driver
RunStart ==
    /\ phase = "loading"
    /\ phase' = "running"
    /\ net0' = [nodes |-> nodes, redexes |-> redexes]
    /\ UNCHANGED <<engineVars, rewrites>>

\* one invocation of the driver on pending redex i
RunDrive(i) ==
    /\ phase \in {"running", "quiescent"}
    /\ LET out == driver_run([nodes |-> nodes, redexes |-> redexes], i)
       IN  /\ nodes' = out.net.nodes
           /\ redexes' = out.net.redexes
           /\ IF out.rewrote
              THEN /\ a' = out.given[1]
                   /\ b' = out.given[2]
                   /\ ret' = out.ret
                   /\ oper_res' = out.local
                   /\ rewrites' = rewrites + 1
                   /\ phase' = IF out.ret = "Ok" THEN "running" ELSE "aborted"
              ELSE /\ UNCHANGED <<a, b, ret, oper_res, rewrites>>
                   /\ phase' = "quiescent"
    /\ UNCHANGED <<pc, in_a, in_b, rule, net0>>

----------------------------------------------------------------------------
(* UnifiedAllocator and its caller *)

\* the allocator as one value
Allocator ==
    [regions |-> regions, stats |-> stats, is_unified |-> is_unified, next_ptr |-> next_ptr]

NoCall == [kind |-> "none"]

InitAlloc ==
    /\ regions = UnifiedAllocator_new(TRUE).regions
    /\ stats = UnifiedAllocator_new(TRUE).stats
    /\ is_unified = TRUE
    /\ next_ptr = UnifiedAllocator_new(TRUE).next_ptr
    /\ overflow_checks = TRUE
    /\ apc = "start"
    /\ a_op = "none"
    /\ a_args = NoCall
    /\ a_ret = NoCall
    /\ a_calls = 0
    /\ a_ptrs = <<>>
    /\ a_high = UnifiedAllocator_total_allocated(UnifiedAllocator_new(TRUE))

\* let mut allocator = UnifiedAllocator::new(unified); in a build with or
\* without overflow checks
AllocNew(unified, checks) ==
    /\ apc = "start"
    /\ regions' = UnifiedAllocator_new(unified).regions
    /\ stats' = UnifiedAllocator_new(unified).stats
    /\ is_unified' = UnifiedAllocator_new(unified).is_unified
    /\ next_ptr' = UnifiedAllocator_new(unified).next_ptr
    /\ overflow_checks' = checks
    /\ apc' = "ready"
    /\ UNCHANGED <<a_op, a_args, a_ret, a_calls, a_ptrs, a_high>>

\* the allocator and the result after a call
Returned(op, args, out) ==
    /\ regions' = out.al.regions
    /\ stats' = out.al.stats
    /\ is_unified' = out.al.is_unified
    /\ next_ptr' = out.al.next_ptr
    /\ a_op' = op
    /\ a_args' = args
    /\ a_ret' = out.ret
    /\ apc' = IF out.ret = Panicked THEN "panicked" ELSE "ready"
    /\ a_ptrs' = IF op = "alloc" /\ out.ret.kind = "Ok"
                 THEN Append(a_ptrs, out.ret.val.ptr) ELSE a_ptrs
    /\ a_high' = IF WordLess(a_high, UnifiedAllocator_total_allocated(out.al))
                 THEN UnifiedAllocator_total_allocated(out.al) ELSE a_high
    /\ UNCHANGED overflow_checks

\* let r = allocator.alloc(size, alignment);
AllocAlloc(size, alignment) ==
    /\ apc = "ready"
    /\ a_calls < MaxAllocCalls
    /\ a_calls' = a_calls + 1
    /\ Returned("alloc", [size |-> size, alignment |-> alignment],
                UnifiedAllocator_alloc(Allocator, size, alignment, overflow_checks))

\* let r = allocator.free(ptr);
AllocFree(ptr) ==
    /\ apc = "ready"
    /\ UNCHANGED a_calls
    /\ Returned("free", [ptr |-> ptr], UnifiedAllocator_free(Allocator, ptr))

----------------------------------------------------------------------------
(* partition_tasks and its caller *)

NoStrategy == [kind |-> "none"]

InitPart ==
    /\ ppc = "building"
    /\ p_tasks = <<>>
    /\ p_strategy = NoStrategy
    /\ p_out = Partition_new

\* tasks.push(task);
PartPush(task) ==
    /\ Len(p_tasks) < MaxTasks
    /\ p_tasks' = Append(p_tasks, task)
    /\ ppc' = "building"
    /\ UNCHANGED <<p_strategy, p_out>>

\* let partition = partition_tasks(&tasks, strategy);
PartRun(strategy) ==
    /\ p_strategy' = strategy
    /\ p_out' = partition_tasks(p_tasks, strategy)
    /\ ppc' = "done"
    /\ UNCHANGED p_tasks

----------------------------------------------------------------------------
(* The tiling functions and their caller *)

InitTile ==
    /\ tpc = "idle"
    /\ tile_checks = TRUE
    /\ t_tile = TileConfig_new(Usize(0), Usize(0))
    /\ t_width = Usize(0)
    /\ t_index = Usize(0)
    /\ t_xy = PANIC
    /\ t_back = PANIC

\* let tile = ..; let total_width = tile.width * n; let i = ..; in a build
\* with or without overflow checks
TileMake(tile, n, index, checks) ==
    /\ tpc = "idle"
    /\ ~MulOverflows(tile.width, n)
    /\ t_tile' = tile
    /\ t_width' = wrapping_mul(tile.width, n)
    /\ t_index' = index
    /\ tile_checks' = checks
    /\ tpc' = "made"
    /\ UNCHANGED <<t_xy, t_back>>

\* let (x, y) = linear_to_tiled(i, tile, total_width);
TileTo ==
    /\ tpc = "made"
    /\ t_xy' = linear_to_tiled(t_index, t_tile, t_width, tile_checks)
    /\ tpc' = IF t_xy' = PANIC THEN "panicked" ELSE "tiled"
    /\ UNCHANGED <<tile_checks, t_tile, t_width, t_index, t_back>>

\* let back = tiled_to_linear(x, y, tile, total_width);
TileBack ==
    /\ tpc = "tiled"
    /\ t_back' = tiled_to_linear(t_xy[1], t_xy[2], t_tile, t_width, tile_checks)
    /\ tpc' = IF t_back' = PANIC THEN "panicked" ELSE "back"
    /\ UNCHANGED <<tile_checks, t_tile, t_width, t_index, t_xy>>

----------------------------------------------------------------------------
(* Specifications *)

Init == InitEngine /\ InitNumb /\ InitBook /\ InitRun /\ InitAlloc /\ InitPart /\ InitTile

Next ==
    \/ \E ta \in Tag, tb \in Tag, va \in ValSamples, vb \in ValSamples :
           MakePorts(ta, va, tb, vb) /\ UNCHANGED <<numbVars, bookVars, runVars, allocVars, partVars, tileVars>>
    \/ PushRedex /\ UNCHANGED <<numbVars, bookVars, runVars, allocVars, partVars, tileVars>>
    \/ Classify /\ UNCHANGED <<numbVars, bookVars, runVars, allocVars, partVars, tileVars>>
    \/ Interact /\ UNCHANGED <<numbVars, bookVars, runVars, allocVars, partVars, tileVars>>

\* the engine: ports, classification, interact
Spec == Init /\ [][Next]_vars

NextNumb ==
    \/ \E rx \in RawSamples, ry \in RawSamples :
           NumbMake(rx, ry) /\ UNCHANGED <<engineVars, bookVars, runVars, allocVars, partVars, tileVars>>
    \/ NumbAdd /\ UNCHANGED <<engineVars, bookVars, runVars, allocVars, partVars, tileVars>>
    \/ NumbSub /\ UNCHANGED <<engineVars, bookVars, runVars, allocVars, partVars, tileVars>>
    \/ NumbMul /\ UNCHANGED <<engineVars, bookVars, runVars, allocVars, partVars, tileVars>>
    \/ NumbDiv /\ UNCHANGED <<engineVars, bookVars, runVars, allocVars, partVars, tileVars>>
    \/ NumbFeed /\ UNCHANGED <<engineVars, bookVars, runVars, allocVars, partVars, tileVars>>

\* Numb arithmetic
SpecNumb == Init /\ [][NextNumb]_vars

NextBook ==
    \/ \E name \in NameSamples, def \in DefSamples :
           BookInsert(name, def) /\ UNCHANGED <<engineVars, numbVars, runVars, allocVars, partVars, tileVars>>
    \/ \E name \in NameSamples :
           BookQuery(name) /\ UNCHANGED <<engineVars, numbVars, runVars, allocVars, partVars, tileVars>>

\* the Book while a program is loaded
SpecBook == Init /\ [][NextBook]_vars

NextRun ==
    \/ \E pair \in RedexSamples :
           RunLoadRedex(pair) /\ UNCHANGED <<numbVars, bookVars, allocVars, partVars, tileVars>>
    \/ \E word \in NodeSamples :
           RunLoadNode(word) /\ UNCHANGED <<numbVars, bookVars, allocVars, partVars, tileVars>>
    \/ RunStart /\ UNCHANGED <<numbVars, bookVars, allocVars, partVars, tileVars>>
    \/ \E i \in 1..(IF redexes = <<>> THEN 1 ELSE Len(redexes)) :
           RunDrive(i) /\ UNCHANGED <<numbVars, bookVars, allocVars, partVars, tileVars>>

InitLoaded ==
    InitEngine /\ InitNumb /\ InitBookLoaded /\ InitRun /\ InitAlloc /\ InitPart /\ InitTile

NextAlloc ==
    \/ \E unified \in BOOLEAN, checks \in BOOLEAN :
           AllocNew(unified, checks) /\ UNCHANGED <<engineVars, numbVars, bookVars, runVars, partVars, tileVars>>
    \/ \E size \in SizeSamples, alignment \in AlignSamples :
           AllocAlloc(size, alignment) /\ UNCHANGED <<engineVars, numbVars, bookVars, runVars, partVars, tileVars>>
    \/ \E ptr \in {a_ptrs[k] : k \in DOMAIN a_ptrs} \cup {StrayPtr} :
           AllocFree(ptr) /\ UNCHANGED <<engineVars, numbVars, bookVars, runVars, partVars, tileVars>>

\* the allocator under alloc and free
SpecAlloc == Init /\ [][NextAlloc]_vars

NextPart ==
    \/ \E task \in TaskSamples :
           PartPush(task)
           /\ UNCHANGED <<engineVars, numbVars, bookVars, runVars, allocVars, tileVars>>
    \/ \E strategy \in StrategySamples :
           PartRun(strategy)
           /\ UNCHANGED <<engineVars, numbVars, bookVars, runVars, allocVars, tileVars>>

\* task lists partitioned between CPU and GPU
SpecPart == Init /\ [][NextPart]_vars

NextTile ==
    \/ \E tile \in TileSamples, n \in TilesPerRowSamples, index \in IndexSamples,
          checks \in BOOLEAN :
           TileMake(tile, n, index, checks)
           /\ UNCHANGED <<engineVars, numbVars, bookVars, runVars, allocVars, partVars>>
    \/ TileTo /\ UNCHANGED <<engineVars, numbVars, bookVars, runVars, allocVars, partVars>>
    \/ TileBack /\ UNCHANGED <<engineVars, numbVars, bookVars, runVars, allocVars, partVars>>

\* a linear index taken to tiled coordinates and back
SpecTile == Init /\ [][NextTile]_vars

\* a net reduced by the driver, the Book holding `id`
SpecRun == InitLoaded /\ [][NextRun]_vars

----------------------------------------------------------------------------
(* Properties of Port *)

\* v mod 2^29, written on the bytes of v
Low29(v) == [i \in 1..4 |-> IF i = 4 THEN v[4] % 32 ELSE v[i]]

\* C1: for every tag t and every 32-bit value v, Port::new(t, v).tag() is t
\* and Port::new(t, v).val() is v & 0x1FFFFFFF: the payload is cut to 29
\* bits, never rejected.
C1_PackRoundTrip ==
    pc # "idle" =>
        /\ Port_tag(a) = in_a.tag
        /\ Port_val(a) = Low29(in_a.val)
        /\ Port_tag(b) = in_b.tag
        /\ Port_val(b) = Low29(in_b.val)

\* a Num port was built from a payload with every bit set, and one from a
\* payload that fits
C1_Witness ==
    /\ pc = "ports"
    /\ in_a = [tag |-> "Num", val |-> <<255, 255, 255, 255>>]
    /\ in_b = [tag |-> "Ref", val |-> <<10, 0, 0, 0>>]
    /\ Port_val(a) = <<255, 255, 255, 31>>

----------------------------------------------------------------------------
(* Properties of Numb *)

\* the exact sum of two u64 words, 9 bytes wide
ExactAdd(v, w) == AddFrom(v, w, 1, 9, 0)

\* the exact product of two u64 words, 16 bytes wide
ExactMul(v, w) == MulFrom(v, w, 1, 16, 0)

\* n mod 2^60 as a u64 word
Mod60(n) == [i \in 1..8 |-> IF i = 8 THEN ByteAt(n, 8) % 16 ELSE ByteAt(n, i)]

\* a u64 word below 2^60
InDomain(n) == Len(n) = 8 /\ n[8] < 16

\* C2: x + y, x - y and x * y are the mathematical sum, difference and
\* product of the raw values modulo 2^60.  The difference modulo 2^60 is the
\* one value d below 2^60 with d + y = x modulo 2^60.
C2_WrapModulo ==
    npc = "done" =>
        /\ nop = "add" => nres = Mod60(ExactAdd(x, y))
        /\ nop = "sub" => InDomain(nres) /\ Mod60(ExactAdd(nres, y)) = Mod60(x)
        /\ nop = "mul" => nres = Mod60(ExactMul(x, y))

\* a product that does not fit in 64 bits was formed
C2_Witness ==
    /\ npc = "done"
    /\ nop = "mul"
    /\ \E i \in 9..16 : ExactMul(x, y)[i] # 0
    /\ nres = Mod60(ExactMul(x, y))

\* C3: (x + y) - y is x.  The sum was formed, taken as the left operand, and
\* y was subtracted from it.
C3_AddThenSub ==
    (npc = "done" /\ nop = "sub" /\ prev_op = "add") => nres = prev_x

\* the sum wrapped past 2^60 before y was subtracted again
C3_Witness ==
    /\ npc = "done"
    /\ nop = "sub"
    /\ prev_op = "add"
    /\ WordLess(x, prev_x)
    /\ nres = prev_x

\* C4: x / 0 is the zero numeral and never a trap; for a divisor y that is
\* not zero the result q is the truncated quotient: q * y <= x < q * y + y.
C4_DivTotal ==
    (npc = "done" /\ nop = "div") =>
        /\ nres # PANIC
        /\ IF y = ToWord(0, 8)
           THEN nres = ToWord(0, 8)
           ELSE /\ ~WordLess(x, ExactMul(nres, y))
                /\ WordLess(x, AddFrom(ExactMul(nres, y), y, 1, 17, 0))

\* a numeral that is not zero was divided by zero
C4_Witness ==
    /\ npc = "done"
    /\ nop = "div"
    /\ y = ToWord(0, 8)
    /\ x # ToWord(0, 8)
    /\ nres = ToWord(0, 8)

\* C5: every Numb made by Numb::new, add, sub, mul or div has a raw value
\* below 2^60.
C5_SixtyBits ==
    /\ npc # "idle" => InDomain(x) /\ InDomain(y)
    /\ npc = "done" => InDomain(nres)

\* Numb::new was given 2^64 - 1, and a difference below zero was formed
C5_Witness ==
    /\ npc = "done"
    /\ raw_y = <<255, 255, 255, 255, 255, 255, 255, 255>>
    /\ nop = "sub"
    /\ WordLess(x, y)
    /\ InDomain(nres)

----------------------------------------------------------------------------
(* Properties of classification *)

\* C6: classification is symmetric: get_rule(a, b) = get_rule(b, a).
C6_RuleSymmetric == pc = "classified" => rule = get_rule(b, a)

\* a numeral met a global reference on its right
C6_Witness ==
    /\ pc = "classified"
    /\ Port_tag(a) = "Num"
    /\ Port_tag(b) = "Ref"
    /\ rule = "Deref"

\* C7: classification is total: for ports built with Port::new, Port::tag and
\* get_rule return a value, and neither the unreachable!() arm nor any other
\* panic is reached.
C7_ClassifyTotal ==
    /\ pc # "idle" => Port_tag(a) \in Tag /\ Port_tag(b) \in Tag
    /\ pc \in {"classified", "interacted"} => rule \in Rule
    /\ pc = "interacted" => ret = "Ok"

\* two ports built from payloads with bits above bit 28 set were classified
C7_Witness ==
    /\ pc = "classified"
    /\ in_a.val = <<255, 255, 255, 255>>
    /\ in_b.val = <<3, 0, 0, 32>>
    /\ rule \in Rule

C9_RefIsDeref ==
    (pc = "classified" /\ (Port_tag(a) = "Ref" \/ Port_tag(b) = "Ref")) =>
        rule = "Deref"

----------------------------------------------------------------------------
(* Properties of interact *)

\* port p is held by the net: in a node (either half of its u64) or in a
\* pending redex
HoldsPort(p) ==
    \/ \E i \in DOMAIN nodes : Resize(nodes[i], 4) = p \/ WordShr(nodes[i], 32) = Resize(p, 8)
    \/ \E i \in DOMAIN redexes : redexes[i][1] = p \/ redexes[i][2] = p

\* C10: interact on a numeral-numeral redex collapses it in one step to one
\* numeral port carrying the sum: afterwards the net holds the port
\* Num(val_a + val_b) and the pair is no longer pending.
C10_OperCollapses ==
    (pc = "interacted" /\ Port_tag(a) = "Num" /\ Port_tag(b) = "Num") =>
        /\ ret = "Ok"
        /\ HoldsPort(Port_new("Num", wrapping_add(Port_val(a), Port_val(b))))
        /\ \A i \in DOMAIN redexes : redexes[i] # <<a, b>>

\* a Ref operand of the redex names no definition of the Book
RefAbsent(book, pa, pb) ==
    \/ Port_tag(pa) = "Ref" /\ RefName(pa) \notin DOMAIN book
    \/ Port_tag(pb) = "Ref" /\ RefName(pb) \notin DOMAIN book

\* C11: interact on a redex whose global-reference operand names a
\* definition absent from the Book returns a lookup error and leaves the
\* nodes and pending redexes of the net as they were before the call.
C11_LookupError ==
    [][(pc' = "interacted" /\ pc # "interacted" /\ RefAbsent(defs, a, b)) =>
           (ret' = "LookupError" /\ nodes' = nodes /\ redexes' = redexes)]_vars

----------------------------------------------------------------------------
(* Properties of Book *)

RECURSIVE LastInserted(_, _, _)
\* the definition of the latest of the first k inserts under `name`
LastInserted(log, name, k) ==
    IF k = 0 THEN None
    ELSE IF log[k][1] = name THEN Some(log[k][2])
    ELSE LastInserted(log, name, k - 1)

\* C17: after any sequence of inserts, get(name) is the definition of the
\* most recent insert under that name (inserts under other names do not
\* change it) and len() is the number of distinct names inserted.
C17_LastWriteWins ==
    bpc = "queried" =>
        /\ got = LastInserted(ins_log, got_name, Len(ins_log))
        /\ got_len = Cardinality({ins_log[k][1] : k \in DOMAIN ins_log})

\* a name was inserted twice with different definitions, another name was
\* inserted after it, and the first name was looked up
C17_Witness ==
    /\ bpc = "queried"
    /\ Len(ins_log) = 3
    /\ ins_log[1][1] = got_name
    /\ ins_log[2][1] = got_name
    /\ ins_log[3][1] # got_name
    /\ ins_log[1][2] # ins_log[2][2]
    /\ got = Some(ins_log[2][2])
    /\ got_len = 2

----------------------------------------------------------------------------
(* Properties of a reduction *)

\* the net now
NetNow == [nodes |-> nodes, redexes |-> redexes]

\* the net applying id to 42: the redex @id ~ 42, nothing else
IdApplied == [nodes |-> <<>>, redexes |-> << <<RefId, Num42>> >>]

\* C12: with `id` in the Book, the net applying id to 42, reduced by popping
\* a redex and calling interact until none is pending, ends in a normal
\* form that consists of the single numeral port 42.
C12_IdReturns42 ==
    (phase # "loading" /\ net0 = IdApplied /\ redexes = <<>>) =>
        /\ Len(nodes) = 1
        /\ Num42 \in NodePorts(nodes[1])

RECURSIVE Normal(_)
\* the normal form the driver reaches by always popping the last redex
Normal(net) ==
    IF net.redexes = <<>> THEN net
    ELSE Normal(driver_run(net, Len(net.redexes)).net)

\* C14: whatever the order in which the pending redexes are popped and
\* rewritten, the normal form reached is the same net (the same, hence
\* the same up to a renaming of addresses) as the one reached by popping
\* the last redex first.
C14_Confluence ==
    (phase # "loading" /\ redexes = <<>>) => NetNow = Normal(net0)

\* two different redexes were rewritten oldest first, the reverse of the
\* order of the pending list
C14_Witness ==
    /\ phase = "quiescent"
    /\ Len(net0.redexes) = 2
    /\ net0.redexes[1] # net0.redexes[2]
    /\ rewrites = 2
    /\ <<a, b>> = net0.redexes[2]

\* C15: a rewrite step consumes the redex it was given (it leaves the
\* pending list and is not put back) and adds at most four new redexes,
\* the most two binary nodes can give rise to.
C15_ConsumesRedex ==
    [][rewrites' # rewrites =>
           \E i \in DOMAIN redexes :
               LET rest == RemoveAt(redexes, i)
                   added == Len(redexes') - Len(rest)
               IN  /\ <<a', b'>> = redexes[i]
                   /\ added \in 0..4
                   /\ SubSeq(redexes', 1, Len(rest)) = rest
                   /\ \A k \in (Len(rest) + 1)..Len(redexes') :
                          redexes'[k] # <<a', b'>>]_vars

\* a numeral pair and a reference pair were each rewritten once
C15_Witness ==
    /\ rewrites = 2
    /\ redexes = <<>>
    /\ \E k \in DOMAIN net0.redexes : get_rule(net0.redexes[k][1], net0.redexes[k][2]) = "Oper"
    /\ \E k \in DOMAIN net0.redexes : get_rule(net0.redexes[k][1], net0.redexes[k][2]) = "Deref"

\* a port is a free variable, a numeral, or a reference to a Book entry
PortValid(book, p) ==
    \/ Port_tag(p) \in {"Var", "Num"}
    \/ Port_tag(p) = "Ref" /\ RefName(p) \in DOMAIN book

\* the Net invariant: every port of a node and of a pending redex is valid
NetValid(book, net) ==
    /\ \A i \in DOMAIN net.nodes : \A p \in NodePorts(net.nodes[i]) : PortValid(book, p)
    /\ \A i \in DOMAIN net.redexes :
           PortValid(book, net.redexes[i][1]) /\ PortValid(book, net.redexes[i][2])

\* C16: at every point between two pops the Net invariant holds, and the
\* reduction can be resumed: the driver has not aborted and its step on
\* any redex still pending completes.
C16_ValidAndResumable ==
    (phase # "loading" /\ NetValid(defs, net0)) =>
        /\ NetValid(defs, NetNow)
        /\ phase \in {"running", "quiescent"}
        /\ \A i \in DOMAIN redexes : driver_run(NetNow, i).ret = "Ok"

\* the reduction stands between two pops: a reference was instantiated,
\* another redex is still pending, and a node holds a reference
C16_Witness ==
    /\ phase = "running"
    /\ rewrites = 1
    /\ get_rule(a, b) = "Deref"
    /\ redexes # <<>>
    /\ \E i \in DOMAIN nodes : RefId \in NodePorts(nodes[i])

----------------------------------------------------------------------------
(* Properties of UnifiedAllocator *)

\* w is 2^k for some k below 64
PowerOfTwo(w) == \E k \in 0..63 : w = WordShl(Usize(1), k)

\* C18: every successful alloc(size, alignment) returns a region whose ptr
\* is a multiple of alignment, whose size is the size asked for, which is
\* device- and host-accessible, and whose ptr is_valid right after the call.
C18_AllocRegion ==
    (a_op = "alloc" /\ a_ret.kind = "Ok") =>
        LET region == a_ret.val
        IN  /\ PowerOfTwo(a_args.alignment)
            /\ WordAnd(region.ptr, wrapping_sub(a_args.alignment, Usize(1))) = Usize(0)
            /\ region.size = a_args.size
            /\ region.device_accessible
            /\ region.host_accessible
            /\ UnifiedAllocator_is_valid(Allocator, region.ptr)

\* a second alloc, aligned to 256, was rounded up from 0x10018 to 0x10100
C18_Witness ==
    /\ a_op = "alloc"
    /\ a_ret.kind = "Ok"
    /\ a_calls = 2
    /\ a_args.alignment = Usize(256)
    /\ a_ret.val.ptr = <<0, 1, 1, 0, 0, 0, 0, 0>>

\* C19: alloc returns an error whenever the allocator is not unified or
\* the alignment is not a power of two (0 included), and then the region
\* map, the statistics and the next pointer are as before the call.
C19_AllocRejects ==
    [][(a_calls' # a_calls /\ (~is_unified \/ ~PowerOfTwo(a_args'.alignment))) =>
           /\ a_ret'.kind = "Err"
           /\ regions' = regions
           /\ stats' = stats
           /\ next_ptr' = next_ptr]_vars

\* an alloc with alignment 0 was refused while a region was live
C19_Witness ==
    /\ a_op = "alloc"
    /\ a_args.alignment = Usize(0)
    /\ a_ret = Err("InvalidAlignment")
    /\ is_unified
    /\ DOMAIN regions # {}

\* C20: after a successful free(ptr), is_valid(ptr) is false, get_region(ptr)
\* is None, total_allocated is what it was less the size of the freed
\* region, and every other live region is as it was.
C20_FreeReleases ==
    [][(a_op' = "free" /\ a_ret'.kind = "Ok" /\ regions' # regions) =>
           LET ptr == a_args'.ptr
               freed == regions[ptr]
           IN  /\ ~UnifiedAllocator_is_valid(Allocator', ptr)
               /\ UnifiedAllocator_get_region(Allocator', ptr) = None
               /\ ~WordLess(UnifiedAllocator_total_allocated(Allocator), freed.size)
               /\ UnifiedAllocator_total_allocated(Allocator') =
                      wrapping_sub(UnifiedAllocator_total_allocated(Allocator), freed.size)
               /\ \A q \in (DOMAIN regions) \ {ptr} :
                      q \in DOMAIN regions' /\ regions'[q] = regions[q]]_vars

\* C21: free(ptr) on a pointer that is not the start of a live region
\* (never returned by alloc, or freed already) returns an error and leaves
\* the region map and the statistics as they were.
C21_FreeRejects ==
    [][(a_op' = "free" /\ a_args'.ptr \notin DOMAIN regions) =>
           /\ a_ret'.kind = "Err"
           /\ regions' = regions
           /\ stats' = stats]_vars

\* a pointer was freed a second time while another region was live
C21_Witness ==
    /\ a_op = "free"
    /\ a_ret = Err("NullPointer")
    /\ a_args.ptr \in {a_ptrs[k] : k \in DOMAIN a_ptrs}
    /\ stats.deallocations = 1
    /\ DOMAIN regions # {}

\* C22: each successful alloc returns a ptr strictly greater than the ptr
\* of every earlier successful alloc, whatever was freed in between.
C22_PtrsIncrease ==
    \A i \in DOMAIN a_ptrs : \A j \in DOMAIN a_ptrs :
        i < j => WordLess(a_ptrs[i], a_ptrs[j])

\* C23: peak_usage() is the largest value total_allocated() has taken so
\* far; so it is never below total_allocated(), and it never decreases.
C23_PeakIsMax ==
    /\ UnifiedAllocator_peak_usage(Allocator) = a_high
    /\ ~WordLess(UnifiedAllocator_peak_usage(Allocator),
                 UnifiedAllocator_total_allocated(Allocator))

\* a region was freed and a smaller total allocated after it: the peak is
\* above the present total
C23_Witness ==
    /\ a_op = "alloc"
    /\ a_ret.kind = "Ok"
    /\ stats.deallocations = 1
    /\ stats.allocations = 2
    /\ WordLess(UnifiedAllocator_total_allocated(Allocator), UnifiedAllocator_peak_usage(Allocator))

----------------------------------------------------------------------------
(* Properties of partition_tasks *)

RECURSIVE Pick(_, _, _)
\* the tasks of the list at the positions in `where`, from position k on,
\* in the order of the list
Pick(tasks, where, k) ==
    IF k > Len(tasks) THEN <<>>
    ELSE (IF k \in where THEN <<tasks[k]>> ELSE <<>>) \o Pick(tasks, where, k + 1)

\* C24: for every task list and strategy, each input task is in exactly
\* one of cpu_tasks and gpu_tasks, each side in the order of the input, so
\* total_tasks() is the length of the input.
C24_PartitionComplete ==
    ppc = "done" =>
        /\ \E where \in SUBSET (DOMAIN p_tasks) :
               /\ p_out.cpu_tasks = Pick(p_tasks, where, 1)
               /\ p_out.gpu_tasks = Pick(p_tasks, (DOMAIN p_tasks) \ where, 1)
        /\ Partition_total_tasks(p_out) = Len(p_tasks)

\* three tasks, one of them exactly at the threshold, were split by size
C24_Witness ==
    /\ ppc = "done"
    /\ p_strategy = [kind |-> "SizeThreshold", threshold |-> 100]
    /\ Len(p_tasks) = 3
    /\ \E k \in DOMAIN p_tasks : p_tasks[k].size = 100
    /\ p_out.cpu_tasks # <<>>
    /\ p_out.gpu_tasks # <<>>

\* C25: under SizeThreshold(t) a task is on the GPU side iff its size is at
\* least t; under RoundRobin the tasks at even input index (counting from
\* 0) are on the CPU side and those at odd index on the GPU side.
C25_StrategyRules ==
    /\ (ppc = "done" /\ p_strategy.kind = "SizeThreshold") =>
           /\ p_out.gpu_tasks =
                  Pick(p_tasks, {k \in DOMAIN p_tasks : p_tasks[k].size >= p_strategy.threshold}, 1)
           /\ p_out.cpu_tasks =
                  Pick(p_tasks, {k \in DOMAIN p_tasks : p_tasks[k].size < p_strategy.threshold}, 1)
    /\ (ppc = "done" /\ p_strategy.kind = "RoundRobin") =>
           /\ p_out.cpu_tasks = Pick(p_tasks, {k \in DOMAIN p_tasks : (k - 1) % 2 = 0}, 1)
           /\ p_out.gpu_tasks = Pick(p_tasks, {k \in DOMAIN p_tasks : (k - 1) % 2 = 1}, 1)

\* a task of size exactly the threshold went to the GPU side, a smaller
\* one to the CPU side
C25_Witness ==
    /\ ppc = "done"
    /\ p_strategy = [kind |-> "SizeThreshold", threshold |-> 100]
    /\ p_tasks = <<Task_new(2, 100, "GPU"), Task_new(1, 50, "CPU")>>
    /\ p_out.gpu_tasks = <<Task_new(2, 100, "GPU")>>
    /\ p_out.cpu_tasks = <<Task_new(1, 50, "CPU")>>

----------------------------------------------------------------------------
(* Properties of the rules reached *)

\* C27: get_rule never returns Anni, Comm, Eras, Call or Copy: whenever a
\* pair has been classified, alone or by interact for its dispatch, the
\* rule is Link, Deref or Oper, so interact reaches no other body.
C27_OnlyThreeRules ==
    pc \in {"classified", "interacted"} =>
        /\ rule \notin {"Anni", "Comm", "Eras", "Call", "Copy"}
        /\ rule \in {"Link", "Deref", "Oper"}
        /\ get_rule(b, a) \in {"Link", "Deref", "Oper"}

\* interact dispatched a pair of two references, and it was Deref
C27_Witness ==
    /\ pc = "interacted"
    /\ Port_tag(a) = "Ref"
    /\ Port_tag(b) = "Ref"
    /\ rule = "Deref"
    /\ ret = "Ok"

----------------------------------------------------------------------------
(* Properties of tiling *)

\* the round trip has ended, in a value or in a panic
TileEnded == tpc \in {"back", "panicked"}

====
